---- MODULE Spec2Model ----
(***************************************************************************)
(* Model of src/stackcollapse_simpleperf.py: parse_report_text and the     *)
(* full-tree parser it calls (parse_entry_callstack,                       *)
(* parse_callstack_tree_new), as one state machine.  Every iteration of    *)
(* one of the three `while i < len(lines)` loops is one action.            *)
(*                                                                         *)
(* Text is modelled at the level of lines: a line is a record giving the   *)
(* kind the regular expressions of the source put it in and the fields     *)
(* they extract from it.  Python floats are modelled as exact rationals    *)
(* <<numerator, denominator>> in lowest terms.  A stack key (frames joined *)
(* by ';') is modelled as the list of its ';'-separated pieces, which is   *)
(* what str.split(';') returns for it.                                     *)
(***************************************************************************)
EXTENDS Integers, Sequences, FiniteSets, TLC

VARIABLES
    lines, reverse, dedug_first_start, equalize_root_sum,   \* arguments
    pc, exit_status,
    event_count, total_samples,                             \* header scan
    i, stacks, current, emitted_threads, final_stacks,      \* parse_report_text
    ei, command, children_pct, estacks, tree_stacks,        \* parse_entry_callstack
    ti, root_func, frames, tstacks, emitted,                \* parse_callstack_tree_new
    pipe_base_depth, overflow,
    file, ret, line_num, line_count, valid_lines, is_valid, \* validate_folded_file
    emit_log, parents, pushed_rows, cur_start, contributed, \* history
    forward_stacks, stacks_at

vars == <<lines, reverse, dedug_first_start, equalize_root_sum, pc, exit_status,
          event_count, total_samples, i, stacks, current, emitted_threads,
          final_stacks, ei, command, children_pct, estacks, tree_stacks, ti,
          root_func, frames, tstacks, emitted, pipe_base_depth, overflow,
          file, ret, line_num, line_count, valid_lines, is_valid,
          emit_log, parents, pushed_rows, cur_start, contributed, forward_stacks,
          stacks_at>>

-----------------------------------------------------------------------------
(* Bounds of the input families. *)

MaxRows == 3

MaxGroups == 3

MaxBrief == 3

MaxFileLen == 3

-----------------------------------------------------------------------------
(* Program constants. *)

HeaderLines == 40

\* the number of lines validate_folded_file looks at
ValidateLimit == 1000

DepthLimit == 512

\* the arguments of sys.exit: header field missing, stack map empty, file invalid
HeaderExitStatus == 1

EmptyExitStatus == 1

InvalidExitStatus == 1

\* None, for an integer-valued field.
NoneV == -1

EntrySymbol == "__start_thread"

UnknownCommand == "Unknown"

-----------------------------------------------------------------------------
(* Exact rational arithmetic standing for Python's float arithmetic. *)

Abs(x) == IF x < 0 THEN -x ELSE x

RECURSIVE GCD(_, _)
GCD(a, b) == IF b = 0 THEN a ELSE GCD(b, a % b)

Q(n, d) ==
    LET g == GCD(Abs(n), d)
    IN  IF n = 0 THEN <<0, 1>> ELSE <<n \div g, d \div g>>

QInt(n) == <<n, 1>>

QZero == <<0, 1>>

QAdd(x, y) == Q(x[1] * y[2] + y[1] * x[2], x[2] * y[2])

QMul(x, y) ==
    LET a == Q(x[1], y[2])       \* cross-reduce first: keeps the products small
        b == Q(y[1], x[2])
    IN  Q(a[1] * b[1], a[2] * b[2])

\* x / y for y > 0
QDiv(x, y) == QMul(x, <<y[2], y[1]>>)

QPos(x) == x[1] > 0

\* pct / 100.0
Frac(pct) == Q(pct, 100)

\* int(round(v)) for v >= 0: Python 3 rounds a half to the even neighbour.
RoundHalfEven(v) ==
    LET q == v[1] \div v[2]
        r == v[1] % v[2]
    IN  IF 2 * r < v[2] THEN q
        ELSE IF 2 * r > v[2] THEN q + 1
        ELSE IF q % 2 = 0 THEN q ELSE q + 1

\* sum(d.values())
RECURSIVE SumOver(_, _)
SumOver(m, ks) ==
    IF ks = {} THEN QZero
    ELSE LET k == CHOOSE x \in ks : TRUE
         IN  QAdd(m[k], SumOver(m, ks \ {k}))

SumValues(m) == SumOver(m, DOMAIN m)

\* d[k] = d.get(k, 0.0) + v
AddTo(m, k, v) ==
    [x \in DOMAIN m \cup {k} |->
        IF x = k THEN QAdd(IF k \in DOMAIN m THEN m[k] ELSE QZero, v) ELSE m[x]]

EmptyMap == [x \in {} |-> QZero]

-----------------------------------------------------------------------------
(* Lines.  k is the kind:                                                  *)
(*   evcount   "Event count: <num>"      (num = NoneV: int() raises)       *)
(*   samples   "Samples: <num>"                                            *)
(*   blank     an empty line                                               *)
(*   skipnote  a line holding 'skipped in brief callgraph mode'            *)
(*   top       a row matching ^\d+\.\d+% that splits into >= 6 columns     *)
(*   badtop    a row matching ^\d+\.\d+% that splits into < 6 columns      *)
(*   root      "-- <name>" at column 0                                     *)
(*   dash      "   -- <name>", indented                                    *)
(*   branch    "<pipes>--<num>%-- <name>" with `pipes` leading '|'         *)
(*   implicit  "   <name>": no marker, no percentage                       *)
(*   pipe      "|"                                                         *)
(***************************************************************************)

NoThread == <<"", "", "">>

Line(k, num, thr, name, pipes) ==
    [k |-> k, num |-> num, thr |-> thr, name |-> name, pipes |-> pipes]

EvLine(n) == Line("evcount", n, NoThread, "", 0)

SmLine(n) == Line("samples", n, NoThread, "", 0)

Blank == Line("blank", 0, NoThread, "", 0)

SkipNote == Line("skipnote", 0, NoThread, "", 0)

Top(pct, thr, sym) == Line("top", pct, thr, sym, 0)

BadTop == Line("badtop", 0, NoThread, "", 0)

Root(name) == Line("root", 0, NoThread, name, 0)

Dash(name) == Line("dash", 0, NoThread, name, 0)

Branch(pipes, pct, name) == Line("branch", pct, NoThread, name, pipes)

Implicit(name) == Line("implicit", 0, NoThread, name, 0)

Pipe == Line("pipe", 0, NoThread, "", 0)

\* re.match(r'^\d+\.\d+%', line)
IsMainEntry(l) == l.k \in {"top", "badtop"}

\* line.strip().startswith('-- ')
IsDashLine(l) == l.k \in {"root", "dash"}

\* the text of a header line as line.strip() returns it
LineText(l) ==
    IF l.k = "evcount" THEN "Event count: " \o ToString(l.num)
    ELSE IF l.k = "samples" THEN "Samples: " \o ToString(l.num)
    ELSE l.name

\* '__start_thread' in symbol
IsEntry(sym) == sym \in {EntrySymbol, "__start_thread_x"}

\* any(l.strip().startswith('-- ') or ('|--' in l) for l in lines)
HasTree == \E j \in 1..Len(lines) : lines[j].k \in {"root", "dash", "branch"}

\* name.split(';'): the only name of the inputs that holds a ';' is "x;y"
Pieces(name) == IF name = "x;y" THEN <<"x", "y">> ELSE <<name>>

\* ';'.join(elems), as the list of the pieces between the ';' (the list is
\* halved rather than walked, to keep the evaluation shallow on long paths)
RECURSIVE Join(_)
Join(elems) ==
    IF elems = <<>> THEN <<>>
    ELSE IF Len(elems) = 1 THEN Pieces(elems[1])
    ELSE LET h == Len(elems) \div 2
         IN  Join(SubSeq(elems, 1, h)) \o Join(SubSeq(elems, h + 1, Len(elems)))

\* reversed(stack_str.split(';')), joined again
Reversed(key) == [j \in 1..Len(key) |-> key[Len(key) + 1 - j]]

-----------------------------------------------------------------------------
(* Header scan and the values derived from it. *)

Min(a, b) == IF a < b THEN a ELSE b

SetMax(S) == CHOOSE x \in S : \A y \in S : y <= x

SetMin(S) == CHOOSE x \in S : \A y \in S : x <= y

\* the loop over lines[:40]: the last line of the kind whose int() succeeds
HeaderValue(kind) ==
    LET js == {j \in 1..Min(HeaderLines, Len(lines)) :
                  lines[j].k = kind /\ lines[j].num # NoneV}
    IN  IF js = {} THEN NoneV ELSE lines[SetMax(js)].num

EventsPerSample(ec, ts) == IF ts > 0 THEN Q(ec, ts) ELSE QInt(1)

\* mutant of EventTotal: the declared event count, whatever the samples
EventTotalDeclared(ec, ts) == QInt(ec)

EventTotal(ec, ts) == QMul(EventsPerSample(ec, ts), QInt(ts))

-----------------------------------------------------------------------------
(* Index helpers. *)

\* while i < len(lines): return i at the first row that matches; return i
skip_to_next_tree_or_main_entry_from(j) ==
    LET found == {x \in j..Len(lines) :
                     lines[x].k # "blank" /\ (IsMainEntry(lines[x]) \/ lines[x].k = "root")}
    IN  IF found # {} THEN SetMin(found)
        ELSE IF j > Len(lines) THEN j ELSE Len(lines) + 1

\* mutant of skip_to_next_tree_or_main_entry: the search starts at start_idx
skip_to_next_tree_or_main_entry_at(start_idx) ==
    skip_to_next_tree_or_main_entry_from(start_idx)

skip_to_next_tree_or_main_entry(start_idx) ==
    skip_to_next_tree_or_main_entry_from(start_idx + 1)

skip_to_next_main_entry(start_idx) ==
    LET found == {x \in start_idx..Len(lines) : IsMainEntry(lines[x])}
    IN  IF found # {} THEN SetMin(found)
        ELSE IF start_idx > Len(lines) THEN start_idx ELSE Len(lines) + 1

-----------------------------------------------------------------------------
(* Brief mode: the block being collected. *)

NoCurrent ==
    [open |-> FALSE, thread_key |-> NoThread, command |-> "", symbols |-> <<>>,
     block_pct |-> 0, skip |-> FALSE]

NewCurrent(l) ==
    [open |-> TRUE, thread_key |-> l.thr, command |-> l.thr[1],
     symbols |-> IF l.name # "" THEN <<l.name>> ELSE <<>>,
     block_pct |-> l.num, skip |-> FALSE]

\* mutant of ExtendCurrent: the block takes the weight of its latest row
ExtendCurrentLastPct(cur, l) ==
    IF l.name # "" /\ (cur.symbols = <<>> \/ cur.symbols[Len(cur.symbols)] # l.name)
    THEN [cur EXCEPT !.symbols = Append(@, l.name), !.block_pct = l.num]
    ELSE [cur EXCEPT !.block_pct = l.num]

\* lines 216-218: a further row of the block's thread
ExtendCurrent(cur, l) ==
    IF l.name # "" /\ (cur.symbols = <<>> \/ cur.symbols[Len(cur.symbols)] # l.name)
    THEN [cur EXCEPT !.symbols = Append(@, l.name)]
    ELSE cur

\* mutant of ShouldEmit: the skip mark is not looked at
ShouldEmitSkipped(cur, seen) ==
    /\ cur.open
    /\ cur.symbols # <<>>
    /\ (dedug_first_start =>
            /\ cur.thread_key \notin seen
            /\ IsEntry(cur.symbols[1]))

\* whether flush_current_block gets past its early returns and the filter
ShouldEmit(cur, seen) ==
    /\ cur.open
    /\ cur.symbols # <<>>
    /\ ~cur.skip
    /\ (dedug_first_start =>
            /\ cur.thread_key \notin seen
            /\ IsEntry(cur.symbols[1]))

BlockKey(cur) ==
    LET elems == <<cur.command>> \o cur.symbols
    IN  Join(IF reverse THEN Reversed(elems) ELSE elems)

BlockCount(cur) == QMul(EventTotal(event_count, total_samples), Frac(cur.block_pct))

\* flush_current_block: the three things it may change
FlushStacks(cur, seen, st) ==
    IF ShouldEmit(cur, seen) /\ QPos(BlockCount(cur))
    THEN AddTo(st, BlockKey(cur), BlockCount(cur))
    ELSE st

\* history: the same statement in the run of the same report with reverse=False
ForwardFlushStacks(cur, seen, st) ==
    IF ShouldEmit(cur, seen) /\ QPos(BlockCount(cur))
    THEN AddTo(st, Join(<<cur.command>> \o cur.symbols), BlockCount(cur))
    ELSE st

\* mutant of FlushThreads: the thread of a skipped block is registered
FlushThreadsSkipped(cur, seen) ==
    IF ShouldEmitSkipped(cur, seen) /\ dedug_first_start
    THEN seen \cup {cur.thread_key}
    ELSE seen

FlushThreads(cur, seen) ==
    IF ShouldEmit(cur, seen) /\ dedug_first_start
    THEN seen \cup {cur.thread_key}
    ELSE seen

FlushContributed(cur, seen, start, done) ==
    IF ShouldEmit(cur, seen) /\ QPos(BlockCount(cur))
    THEN done \cup {start}
    ELSE done

-----------------------------------------------------------------------------
(* Full-tree parser: the open frames and the emission of leaves.           *)
(* A frame is [name, pct, child, line]; pct = NoneV when the row carries   *)
(* none; line is the index of the row that pushed it (history).                 *)
(* pending_context is never filled by the source, so context_stack stays   *)
(* empty and flatten_context returns [] always.                            *)

Frame(name, pct, line) == [name |-> name, pct |-> pct, child |-> FALSE, line |-> line]

FrameNames(fs) == [j \in 1..Len(fs) |-> fs[j].name]

FrameLines(fs) == [j \in 1..Len(fs) |-> fs[j].line]

flatten_context(upto_level) == <<>>

\* base_path
BasePath(cmd, rf) ==
    IF cmd # "" /\ cmd # UnknownCommand THEN <<cmd, rf>> ELSE <<rf>>

\* frac after the loop over frames_prefix, starting from children_pct / 100.0
\* the product of pct / 100.0 over the frames that carry a percentage (the list
\* is halved rather than walked, to keep the evaluation shallow on long paths)
RECURSIVE FracProduct(_)
FracProduct(fs) ==
    IF fs = <<>> THEN QInt(1)
    ELSE IF Len(fs) = 1
    THEN IF fs[1].pct # NoneV THEN Frac(fs[1].pct) ELSE QInt(1)
    ELSE LET h == Len(fs) \div 2
         IN  QMul(FracProduct(SubSeq(fs, 1, h)), FracProduct(SubSeq(fs, h + 1, Len(fs))))

PathFrac(frac, fs) == QMul(frac, FracProduct(fs))

\* mutant of LeafCount: the root's Children% is left out of the product
LeafCountNoChildren(fs) ==
    QMul(EventTotal(event_count, total_samples), PathFrac(QInt(1), fs))

LeafCount(fs) ==
    QMul(EventTotal(event_count, total_samples), PathFrac(Frac(children_pct), fs))

LeafKey(fs) ==
    Join(BasePath(command, root_func) \o flatten_context(Len(fs)) \o FrameNames(fs))

\* emit_leaf on the tree state st = [frames, stacks, emitted, log]
emit_leaf(st, frames_prefix) ==
    IF frames_prefix = <<>> THEN st
    ELSE LET key == LeafKey(frames_prefix)
             cnt == LeafCount(frames_prefix)
             rec == [key |-> key, count |-> cnt, rows |-> FrameLines(frames_prefix),
                     root |-> ei, top |-> i - 1, stored |-> key \notin st.emitted]
         IN  IF key \in st.emitted
             THEN [st EXCEPT !.log = Append(@, rec)]
             ELSE [st EXCEPT !.log = Append(@, rec),
                             !.emitted = @ \cup {key},
                             !.stacks = AddTo(@, key, cnt)]

\* mutant of IsLeaf: a popped frame is emitted whether or not it has a child
IsLeafAlways(fr) == TRUE

\* if not last.get('child')
IsLeaf(fr) == ~fr.child

\* the calls emit_leaf(frames + [last]) for the popped frames at the positions js
\* of fs, the deepest first
RECURSIVE EmitPopped(_, _, _)
EmitPopped(st, fs, js) ==
    IF js = {} THEN st
    ELSE LET j == SetMax(js)
         IN  EmitPopped(emit_leaf(st, SubSeq(fs, 1, j)), fs, js \ {j})

\* while len(frames) > depth: last = frames.pop(); emit it unless it has a child
PopTo(st, depth) ==
    IF Len(st.frames) > depth
    THEN LET leaves == {j \in (depth + 1)..Len(st.frames) : IsLeaf(st.frames[j])}
         IN  [EmitPopped(st, st.frames, leaves) EXCEPT !.frames = SubSeq(@, 1, depth)]
    ELSE st

\* if frames: frames[-1]['child'] = True
MarkChild(fs) == IF fs = <<>> THEN fs ELSE [fs EXCEPT ![Len(fs)].child = TRUE]

\* frames.append(...) under the marked parent
Push(fs, fr) == Append(MarkChild(fs), fr)

\* any(fr['name'] == func_name for fr in frames)
OnPath(fs, name) == \E j \in 1..Len(fs) : fs[j].name = name

PushedUnder(fs, ps) == IF fs = <<>> THEN ps ELSE ps \cup {fs[Len(fs)].line}

TreeState == [frames |-> frames, stacks |-> tstacks, emitted |-> emitted, log |-> emit_log]

\* the rows on which the loop of parse_callstack_tree_new breaks
TreeBreaks(l) == IsMainEntry(l) \/ l.k = "root"

\* an implicit row: no '|', no '--', no percentage
IsImplicitRow(l) == l.k \in {"implicit", "evcount", "samples"}

\* mutant of Equalize: every root is rescaled, entry symbol or not
EqualizeAnyRoot(ts, rf) ==
    LET block_total == QMul(EventTotal(event_count, total_samples), Frac(children_pct))
        ssum == SumValues(ts)
    IN  IF equalize_root_sum /\ QPos(ssum) /\ QPos(block_total)
        THEN [k \in DOMAIN ts |-> QMul(ts[k], QDiv(block_total, ssum))]
        ELSE ts

\* lines 289-296 of parse_entry_callstack: the root's stacks after equalization
Equalize(ts, rf) ==
    LET block_total == QMul(EventTotal(event_count, total_samples), Frac(children_pct))
        ssum == SumValues(ts)
    IN  IF equalize_root_sum /\ IsEntry(rf) /\ QPos(ssum) /\ QPos(block_total)
        THEN [k \in DOMAIN ts |-> QMul(ts[k], QDiv(block_total, ssum))]
        ELSE ts

\* for k, v in src.items(): dst[k] = dst.get(k, 0.0) + v
RECURSIVE MergeOver(_, _, _)
MergeOver(dst, src, ks) ==
    IF ks = {} THEN dst
    ELSE LET k == CHOOSE x \in ks : TRUE
         IN  MergeOver(AddTo(dst, k, src[k]), src, ks \ {k})

Merge(dst, src) == MergeOver(dst, src, DOMAIN src)

\* lines 194-199: the keys reversed on request, counts <= 0 left out
PositivePart(m) == [k \in {x \in DOMAIN m : QPos(m[x])} |-> m[k]]

ReverseKeys(m) ==
    LET ks == {Reversed(k) : k \in DOMAIN m}
    IN  [r \in ks |-> SumOver(m, {k \in DOMAIN m : Reversed(k) = r})]

\* mutant of MergeTree: the count of a key already in the map is overwritten
MergeTreeOverwrite(dst, ts) ==
    LET src == IF reverse THEN ReverseKeys(PositivePart(ts)) ELSE PositivePart(ts)
    IN  [k \in DOMAIN dst \cup DOMAIN src |-> IF k \in DOMAIN src THEN src[k] ELSE dst[k]]

MergeTree(dst, ts) ==
    Merge(dst, IF reverse THEN ReverseKeys(PositivePart(ts)) ELSE PositivePart(ts))

\* history: lines 194-199 in the run of the same report with reverse=False
ForwardMergeTree(dst, ts) == Merge(dst, PositivePart(ts))

\* final_stacks
Finalize(st) == [k \in {x \in DOMAIN st : QPos(st[x])} |-> RoundHalfEven(st[k])]

-----------------------------------------------------------------------------
(* The folded file.  A line of it is a record of kind k:                   *)
(*   counted  "<stack> <count>": rsplit(' ', 1) gives two parts and int()  *)
(*            of the second succeeds                                       *)
(*   blank    empty after strip()                                          *)
(*   other    anything else: no space in it, or int() raises               *)

FoldedLine(stack, c) == [k |-> "counted", stack |-> stack, count |-> c]

FBlank == [k |-> "blank", stack |-> <<>>, count |-> 0]

FOther == [k |-> "other", stack |-> <<>>, count |-> 0]

\* lines 501-506: the line counts as valid
LineValid(l) == l.k = "counted" /\ l.count > 0

\* write_folded: one line per stack with a positive count (the lines are written
\* in the order of the dict; no property of the model depends on the order)
RECURSIVE WriteOver(_, _)
WriteOver(m, ks) ==
    IF ks = {} THEN <<>>
    ELSE LET k == CHOOSE x \in ks : TRUE
         IN  (IF m[k] <= 0 THEN <<>> ELSE <<FoldedLine(k, m[k])>>)
                 \o WriteOver(m, ks \ {k})

write_folded(m) == WriteOver(m, DOMAIN m)

\* lines 512-517: the verdict after the loop
Verdict(valid, count) ==
    /\ valid # 0
    /\ 2 * valid >= Min(count, ValidateLimit)

-----------------------------------------------------------------------------
(* The inputs: bounded families of reports and options. *)

SeqUpTo(S, n) == UNION {[1..m -> S] : m \in 0..n}

Rep(l, n) == [j \in 1..n |-> l]

RECURSIVE Flatten(_)
Flatten(ss) == IF ss = <<>> THEN <<>> ELSE Head(ss) \o Flatten(Tail(ss))

ThrP == <<"proc", "1", "2">>

ThrU == <<UnknownCommand, "1", "4">>

GoodHeader == <<EvLine(1000), SmLine(10)>>

\* one top-level row, one root, a tree of up to MaxRows rows
TreeRows ==
    {Branch(1, 60, "f"), Branch(1, 40, "g"), Branch(2, 50, "f"), Branch(2, 50, "g"),
     Dash("f"), Implicit("f")}

TreeInputs ==
    {[lines |-> GoodHeader \o <<Top(50, ThrP, EntrySymbol), Root(c[1])>> \o rows,
      reverse |-> FALSE, dedug |-> FALSE, equalize |-> c[2]] :
        c \in {<<"root", FALSE>>, <<"root", TRUE>>, <<EntrySymbol, TRUE>>},
        rows \in SeqUpTo(TreeRows, MaxRows)}

\* several top-level rows and roots
Groups ==
    {<<Top(50, ThrP, EntrySymbol), Root("root"), Branch(1, 60, "f")>>,
     <<Top(20, ThrP, "main")>>,
     <<Top(50, ThrU, EntrySymbol), Pipe>>,
     <<Root("root"), Branch(1, 60, "f")>>,
     <<Root(EntrySymbol), Branch(2, 50, "g"), Pipe>>,
     <<Dash("f"), Blank, BadTop>>}

GroupInputs ==
    {[lines |-> GoodHeader \o Flatten(gs),
      reverse |-> rv, dedug |-> dd, equalize |-> FALSE] :
        gs \in SeqUpTo(Groups, MaxGroups), rv \in BOOLEAN, dd \in BOOLEAN}

\* brief mode: top-level rows only
BriefRows ==
    {<<Top(50, ThrP, EntrySymbol)>>, <<Top(20, ThrP, "main")>>,
     <<Top(0, ThrU, EntrySymbol)>>, <<SkipNote>>, <<SkipNote, Top(0, ThrU, EntrySymbol)>>,
     <<BadTop>>}

BriefInputs ==
    {[lines |-> GoodHeader \o Flatten(rows),
      reverse |-> rv, dedug |-> dd, equalize |-> FALSE] :
        rows \in SeqUpTo(BriefRows, MaxBrief), rv \in BOOLEAN, dd \in BOOLEAN}

\* the header fields present, absent or unparseable, over three fixed reports
HeaderChoices(kind, vals) ==
    {<<>>} \cup {<<Line(kind, v, NoThread, "", 0)>> : v \in vals}

Bodies ==
    {<<Top(50, ThrP, "root"), Root("root"), Branch(1, 60, "f"), Branch(1, 40, "g")>>,
     <<Top(50, ThrP, EntrySymbol), Top(20, ThrP, "main")>>,
     <<Top(20, ThrP, "main"), Root("root"), Implicit("f"), Branch(2, 50, "g")>>}

HeaderInputs ==
    {[lines |-> ev \o sm \o body,
      reverse |-> FALSE, dedug |-> FALSE, equalize |-> FALSE] :
        ev \in HeaderChoices("evcount", {NoneV, 1, 3, 1000}),
        sm \in HeaderChoices("samples", {NoneV, 0, 10}),
        body \in Bodies}

\* a symbol that holds the separator of the keys, in a brief and in a tree report
SemicolonBodies ==
    {<<Top(50, ThrP, "x;y")>>,
     <<Top(50, ThrP, "x;y"), Top(20, ThrU, "main")>>,
     <<Top(50, ThrP, EntrySymbol), Root("x;y"), Branch(1, 60, "f")>>}

SemicolonInputs ==
    {[lines |-> GoodHeader \o body,
      reverse |-> rv, dedug |-> FALSE, equalize |-> FALSE] :
        body \in SemicolonBodies, rv \in BOOLEAN}

\* tree reports whose sequence of top-level blocks is given twice, with counts
\* that are whole numbers (event_total 1000) and that are not (event_total 5)
DoubledBodies ==
    {<<Top(50, ThrP, EntrySymbol), Root("root"), Branch(1, 60, "f")>>,
     <<Top(50, ThrP, EntrySymbol), Root("root"), Branch(1, 60, "f"), Branch(1, 40, "g")>>,
     <<Top(50, ThrP, EntrySymbol), Root("root"), Branch(1, 60, "f"),
       Top(20, ThrU, "main"), Root("root"), Branch(1, 60, "f"), Branch(2, 50, "g")>>}

DoubledInputs ==
    {[lines |-> <<EvLine(ec), SmLine(10)>> \o body \o body,
      reverse |-> rv, dedug |-> FALSE, equalize |-> FALSE] :
        ec \in {5, 1000}, body \in DoubledBodies, rv \in BOOLEAN}

\* folded files given to validate_folded_file directly: every short file, and
\* files as long as the limit whose valid lines are just under or at half of it
FileLines == {FBlank, FOther, FoldedLine(<<"a">>, 3), FoldedLine(<<"a">>, 0)}

FileTails ==
    {<<FOther>>, <<FBlank>>, <<FBlank, FoldedLine(<<"a">>, 3)>>,
     <<FoldedLine(<<"a">>, 3), FoldedLine(<<"a">>, 3)>>,
     <<FBlank, FBlank, FoldedLine(<<"a">>, 3)>>}

Files ==
    SeqUpTo(FileLines, MaxFileLen)
    \cup {Rep(FoldedLine(<<"a">>, 3), nv) \o Rep(FOther, ValidateLimit - 1 - nv) \o tail :
              nv \in {ValidateLimit \div 2 - 1, ValidateLimit \div 2}, tail \in FileTails}

\* header lines after the first row of the table: within the first 40 lines of
\* the report, beyond them, and inside a tree
LateHeaderBodies ==
    {<<Top(50, ThrP, EntrySymbol), h, Top(20, ThrU, "main")>> :
        h \in {EvLine(2000), SmLine(20), SmLine(0), EvLine(NoneV)}}
    \cup {<<Top(50, ThrP, EntrySymbol)>> \o Rep(Blank, HeaderLines) \o <<EvLine(2000)>>,
          <<Top(50, ThrP, EntrySymbol), Root("root"), EvLine(2000), Branch(1, 60, "f")>>}

LateHeaderInputs ==
    {[lines |-> hd \o body,
      reverse |-> FALSE, dedug |-> FALSE, equalize |-> FALSE] :
        hd \in {GoodHeader, <<EvLine(1000)>>}, body \in LateHeaderBodies}

\* one root with a chain of rows, each one level deeper, longer than the depth
\* limit: implicit rows, indented "-- " rows and branch rows
DeepRows ==
    {Rep(Implicit("f"), DepthLimit + 2),
     [j \in 1..(DepthLimit + 2) |-> Dash(ToString(j))],
     [j \in 1..(DepthLimit + 2) |-> Branch(j, 100, ToString(j))]}

DeepInputs ==
    {[lines |-> GoodHeader \o <<Top(50, ThrP, EntrySymbol), Root("root")>> \o rows,
      reverse |-> FALSE, dedug |-> FALSE, equalize |-> FALSE] :
        rows \in DeepRows}

\* a malformed top-level row inside a tree, between a top-level row and its
\* first root, and between two roots of one top-level row
MalformedBodies ==
    {<<Top(50, ThrP, EntrySymbol), Root("root"), Branch(1, 60, "f"), BadTop,
       Branch(1, 40, "g")>>,
     <<Top(50, ThrP, EntrySymbol), BadTop, Root("root"), Branch(1, 60, "f")>>,
     <<Top(50, ThrP, EntrySymbol), Root("root"), Branch(1, 60, "f"), BadTop,
       Root("root"), Branch(1, 40, "g")>>}

MalformedInputs ==
    {[lines |-> GoodHeader \o body,
      reverse |-> FALSE, dedug |-> dd, equalize |-> FALSE] :
        body \in MalformedBodies, dd \in BOOLEAN}

\* a header that declares no samples, over a tree report and a brief report
ZeroSampleBodies ==
    {<<Top(50, ThrP, EntrySymbol), Root(EntrySymbol), Branch(1, 60, "f"),
       Branch(1, 40, "g")>>,
     <<Top(50, ThrP, EntrySymbol), Root("root"), Implicit("f")>>,
     <<Top(50, ThrP, EntrySymbol), Top(20, ThrU, "main")>>}

ZeroSampleInputs ==
    {[lines |-> <<EvLine(ec), SmLine(0)>> \o body,
      reverse |-> rv, dedug |-> dd, equalize |-> eq] :
        ec \in {1, 1000}, body \in ZeroSampleBodies,
        rv \in BOOLEAN, dd \in BOOLEAN, eq \in BOOLEAN}

Inputs ==
    TreeInputs \cup GroupInputs \cup BriefInputs \cup HeaderInputs \cup SemicolonInputs
        \cup DoubledInputs \cup LateHeaderInputs \cup DeepInputs \cup MalformedInputs
        \cup ZeroSampleInputs

-----------------------------------------------------------------------------
(* The state machine. *)

\* main is run on a report, or validate_folded_file is called on a file
Init ==
    /\ \/ \E inp \in Inputs :
            /\ lines = inp.lines
            /\ reverse = inp.reverse
            /\ dedug_first_start = inp.dedug
            /\ equalize_root_sum = inp.equalize
            /\ pc = "header"
            /\ ret = "main"
            /\ file = <<>>
       \/ \E f \in Files :
            /\ lines = <<>>
            /\ reverse = FALSE
            /\ dedug_first_start = FALSE
            /\ equalize_root_sum = FALSE
            /\ pc = "validate"
            /\ ret = "caller"
            /\ file = f
    /\ line_num = 1
    /\ line_count = 0
    /\ valid_lines = 0
    /\ is_valid = FALSE
    /\ exit_status = 0
    /\ event_count = NoneV
    /\ total_samples = NoneV
    /\ i = 1
    /\ stacks = EmptyMap
    /\ current = NoCurrent
    /\ emitted_threads = {}
    /\ final_stacks = [x \in {} |-> 0]
    /\ ei = 1
    /\ command = ""
    /\ children_pct = 0
    /\ estacks = EmptyMap
    /\ tree_stacks = EmptyMap
    /\ ti = 1
    /\ root_func = ""
    /\ frames = <<>>
    /\ tstacks = EmptyMap
    /\ emitted = {}
    /\ pipe_base_depth = NoneV
    /\ overflow = FALSE
    /\ emit_log = <<>>
    /\ parents = {}
    /\ pushed_rows = {}
    /\ cur_start = 0
    /\ contributed = {}
    /\ forward_stacks = EmptyMap
    /\ stacks_at = (1 :> EmptyMap)

\* history: the stack map each time the main loop arrives at index j
Arrive(j, st) == (j :> st) @@ stacks_at

validate_vars == <<file, ret, line_num, line_count, valid_lines, is_valid>>

args == <<lines, reverse, dedug_first_start, equalize_root_sum>>

header_vars == <<event_count, total_samples, exit_status>>

main_vars == <<i, stacks, current, emitted_threads, final_stacks, cur_start, contributed,
               forward_stacks, stacks_at>>

entry_vars == <<ei, command, children_pct, estacks, tree_stacks>>

tree_vars == <<ti, root_func, frames, tstacks, emitted, pipe_base_depth, overflow,
               emit_log, parents, pushed_rows>>

\* mutant of HeaderMissing: only a header missing both counts is fatal
HeaderMissingBoth(ec, ts) == ec = NoneV /\ ts = NoneV

\* if event_count is None or total_samples is None
HeaderMissing(ec, ts) == ec = NoneV \/ ts = NoneV

\* lines 83-113: the scan of the first 40 lines; a missing count ends the process
HeaderScan ==
    /\ pc = "header"
    /\ event_count' = HeaderValue("evcount")
    /\ total_samples' = HeaderValue("samples")
    /\ IF HeaderMissing(event_count', total_samples')
       THEN pc' = "exit" /\ exit_status' = HeaderExitStatus
       ELSE pc' = "main" /\ exit_status' = exit_status
    /\ UNCHANGED <<args, validate_vars, main_vars, entry_vars, tree_vars>>

\* lines 150-160, 168-172, 232-233: a line the main loop steps over
MainSkip ==
    /\ pc = "main"
    /\ i <= Len(lines)
    /\ lines[i].k \notin {"top", "skipnote"}
    /\ i' = i + 1
    /\ stacks_at' = Arrive(i', stacks)
    /\ UNCHANGED <<args, validate_vars, pc, header_vars, stacks, current, emitted_threads, final_stacks,
                   cur_start, contributed, forward_stacks, entry_vars, tree_vars>>

\* lines 161-166
MainSkipNote ==
    /\ pc = "main"
    /\ i <= Len(lines)
    /\ lines[i].k = "skipnote"
    /\ current' = IF ~HasTree /\ current.open THEN [current EXCEPT !.skip = TRUE]
                  ELSE current
    /\ i' = i + 1
    /\ stacks_at' = Arrive(i', stacks)
    /\ UNCHANGED <<args, validate_vars, pc, header_vars, stacks, emitted_threads, final_stacks,
                   cur_start, contributed, forward_stacks, entry_vars, tree_vars>>

\* mutant of TopFiltered: a thread already emitted is not filtered out
TopFilteredEntryOnly(l) == dedug_first_start /\ ~IsEntry(l.name)

\* lines 185-191: the thread-head filter drops the block
TopFiltered(l) ==
    dedug_first_start /\ (l.thr \in emitted_threads \/ ~IsEntry(l.name))

MainTopFiltered ==
    /\ pc = "main"
    /\ i <= Len(lines)
    /\ lines[i].k = "top"
    /\ HasTree
    /\ TopFiltered(lines[i])
    /\ i' = skip_to_next_main_entry(i + 1)
    /\ stacks_at' = Arrive(i', stacks)
    /\ UNCHANGED <<args, validate_vars, pc, header_vars, stacks, current, emitted_threads, final_stacks,
                   cur_start, contributed, forward_stacks, entry_vars, tree_vars>>

\* lines 192-193: the call of parse_entry_callstack
MainTopTree ==
    /\ pc = "main"
    /\ i <= Len(lines)
    /\ lines[i].k = "top"
    /\ HasTree
    /\ ~TopFiltered(lines[i])
    /\ i' = i + 1
    /\ pc' = "entry"
    /\ ei' = i + 1
    /\ command' = lines[i].thr[1]
    /\ children_pct' = lines[i].num
    /\ estacks' = EmptyMap
    /\ tree_stacks' = EmptyMap
    /\ tstacks' = EmptyMap
    /\ UNCHANGED <<args, validate_vars, header_vars, stacks, current, emitted_threads, final_stacks,
                   cur_start, contributed, forward_stacks, stacks_at, ti, root_func,
                   frames, emitted, pipe_base_depth, overflow, emit_log, parents,
                   pushed_rows>>

\* lines 205-231: a row of a brief report
MainTopBrief ==
    /\ pc = "main"
    /\ i <= Len(lines)
    /\ lines[i].k = "top"
    /\ ~HasTree
    /\ LET l == lines[i]
       IN  IF ~current.open
           THEN /\ current' = NewCurrent(l)
                /\ cur_start' = i
                /\ UNCHANGED <<stacks, emitted_threads, contributed, forward_stacks>>
           ELSE IF l.thr = current.thread_key
           THEN /\ current' = ExtendCurrent(current, l)
                /\ UNCHANGED <<stacks, emitted_threads, contributed, cur_start,
                               forward_stacks>>
           ELSE /\ stacks' = FlushStacks(current, emitted_threads, stacks)
                /\ forward_stacks' =
                      ForwardFlushStacks(current, emitted_threads, forward_stacks)
                /\ emitted_threads' = FlushThreads(current, emitted_threads)
                /\ contributed' =
                      FlushContributed(current, emitted_threads, cur_start, contributed)
                /\ current' = NewCurrent(l)
                /\ cur_start' = i
    /\ i' = i + 1
    /\ stacks_at' = Arrive(i', stacks')
    /\ UNCHANGED <<args, validate_vars, pc, header_vars, final_stacks, entry_vars, tree_vars>>

\* lines 235-241: the last block is flushed and the counts are rounded
MainFinish ==
    /\ pc = "main"
    /\ i > Len(lines)
    /\ LET flush == ~HasTree /\ current.open /\ current.symbols # <<>>
       IN  /\ stacks' = IF flush THEN FlushStacks(current, emitted_threads, stacks)
                        ELSE stacks
           /\ forward_stacks' =
                 IF flush THEN ForwardFlushStacks(current, emitted_threads, forward_stacks)
                 ELSE forward_stacks
           /\ emitted_threads' = IF flush THEN FlushThreads(current, emitted_threads)
                                 ELSE emitted_threads
           /\ contributed' =
                 IF flush
                 THEN FlushContributed(current, emitted_threads, cur_start, contributed)
                 ELSE contributed
    /\ final_stacks' = Finalize(stacks')
    /\ pc' = "done"
    /\ UNCHANGED <<args, validate_vars, header_vars, i, current, cur_start, stacks_at, entry_vars,
                   tree_vars>>

\* lines 276-283, 301: a row parse_entry_callstack steps over
EntrySkip ==
    /\ pc = "entry"
    /\ ei <= Len(lines)
    /\ ~IsMainEntry(lines[ei])
    /\ ~IsDashLine(lines[ei])
    /\ ei' = ei + 1
    /\ UNCHANGED <<args, validate_vars, pc, header_vars, main_vars, command, children_pct, estacks,
                   tree_stacks, tree_vars>>

\* lines 284-287, 309-321: a root marker; the call of parse_callstack_tree_new
EntryRoot ==
    /\ pc = "entry"
    /\ ei <= Len(lines)
    /\ IsDashLine(lines[ei])
    /\ root_func' = lines[ei].name
    /\ IF Len(root_func') > 1
       THEN /\ pc' = "tree"
            /\ ti' = ei + 1
            /\ frames' = <<>>
            /\ tstacks' = EmptyMap
            /\ tree_stacks' = EmptyMap
            /\ emitted' = {}
            /\ pipe_base_depth' = NoneV
            /\ overflow' = FALSE
            /\ UNCHANGED ei
       ELSE /\ ei' = skip_to_next_tree_or_main_entry(ei)
            /\ UNCHANGED <<pc, ti, frames, tstacks, tree_stacks, emitted, pipe_base_depth,
                           overflow>>
    /\ UNCHANGED <<args, validate_vars, header_vars, main_vars, command, children_pct, estacks, emit_log,
                   parents, pushed_rows>>

\* lines 279-280, 303, 194-203: parse_entry_callstack returns to the main loop
EntryReturn ==
    /\ pc = "entry"
    /\ IF ei <= Len(lines) THEN IsMainEntry(lines[ei]) ELSE TRUE
    /\ stacks' = MergeTree(stacks, estacks)
    /\ forward_stacks' = ForwardMergeTree(forward_stacks, estacks)
    /\ contributed' = IF DOMAIN PositivePart(estacks) # {} THEN contributed \cup {i - 1}
                      ELSE contributed
    /\ emitted_threads' = IF dedug_first_start
                          THEN emitted_threads \cup {lines[i - 1].thr}
                          ELSE emitted_threads
    /\ i' = skip_to_next_main_entry(i)
    /\ stacks_at' = Arrive(i', stacks')
    /\ pc' = "main"
    /\ UNCHANGED <<args, validate_vars, header_vars, current, final_stacks, cur_start, entry_vars,
                   tree_vars>>

TreeRunning ==
    /\ pc = "tree"
    /\ ~overflow
    /\ ti <= Len(lines)
    /\ ~TreeBreaks(lines[ti])

\* lines 349-357, 443: a row the tree loop steps over
TreeSkip ==
    /\ TreeRunning
    /\ lines[ti].k \in {"blank", "pipe", "skipnote"}
    /\ ti' = ti + 1
    /\ UNCHANGED <<args, validate_vars, pc, header_vars, main_vars, entry_vars, root_func, frames,
                   tstacks, emitted, pipe_base_depth, overflow, emit_log, parents,
                   pushed_rows>>

\* lines 362-368: an implicit row
TreeImplicit ==
    /\ TreeRunning
    /\ IsImplicitRow(lines[ti])
    /\ frames' = Push(frames, Frame(LineText(lines[ti]), NoneV, ti))
    /\ parents' = PushedUnder(frames, parents)
    /\ pushed_rows' = pushed_rows \cup {<<ei, ti>>}
    /\ ti' = ti + 1
    /\ UNCHANGED <<args, validate_vars, pc, header_vars, main_vars, entry_vars, root_func,
                   tstacks, emitted, pipe_base_depth, overflow, emit_log>>

\* lines 370-391: an indented "-- func" row
TreeDash ==
    /\ TreeRunning
    /\ lines[ti].k = "dash"
    /\ IF OnPath(frames, lines[ti].name)
       THEN /\ frames' = MarkChild(frames)
            /\ UNCHANGED <<parents, pushed_rows>>
       ELSE /\ frames' = Push(frames, Frame(lines[ti].name, NoneV, ti))
            /\ parents' = PushedUnder(frames, parents)
            /\ pushed_rows' = pushed_rows \cup {<<ei, ti>>}
    /\ ti' = ti + 1
    /\ UNCHANGED <<args, validate_vars, pc, header_vars, main_vars, entry_vars, root_func,
                   tstacks, emitted, pipe_base_depth, overflow, emit_log>>

\* mutant of BranchDepth: the depth is the count of leading pipes, not one less
BranchDepthPipes(l, base) == base + l.pipes

\* lines 393-443: a branch row
BranchDepth(l, base) == base + (IF l.pipes - 1 > 0 THEN l.pipes - 1 ELSE 0)

TreeBranch ==
    /\ TreeRunning
    /\ lines[ti].k = "branch"
    /\ LET l == lines[ti]
           base == IF pipe_base_depth = NoneV THEN Len(frames) ELSE pipe_base_depth
           st == PopTo(TreeState, BranchDepth(l, base))
           pushed == [st EXCEPT !.frames = Push(@, Frame(l.name, l.num, ti))]
           over == Len(pushed.frames) > DepthLimit
           fin == IF over THEN emit_leaf(pushed, pushed.frames) ELSE pushed
       IN  /\ pipe_base_depth' = base
           /\ IF OnPath(st.frames, l.name)
              THEN /\ frames' = MarkChild(st.frames)
                   /\ tstacks' = st.stacks
                   /\ emitted' = st.emitted
                   /\ emit_log' = st.log
                   /\ ti' = ti + 1
                   /\ UNCHANGED <<parents, pushed_rows, overflow>>
              ELSE /\ frames' = fin.frames
                   /\ tstacks' = fin.stacks
                   /\ emitted' = fin.emitted
                   /\ emit_log' = fin.log
                   /\ parents' = PushedUnder(st.frames, parents)
                   /\ pushed_rows' = pushed_rows \cup {<<ei, ti>>}
                   /\ overflow' = over
                   /\ ti' = IF over THEN ti ELSE ti + 1
    /\ UNCHANGED <<args, validate_vars, pc, header_vars, main_vars, entry_vars, root_func>>

\* lines 353-354, 455-460, 288-300: the tree is closed and handed to the entry loop
TreeReturn ==
    /\ pc = "tree"
    /\ IF ~overflow /\ ti <= Len(lines) THEN TreeBreaks(lines[ti]) ELSE TRUE
    /\ LET st == PopTo(TreeState, 0)
       IN  /\ frames' = st.frames
           /\ tstacks' = st.stacks
           /\ emitted' = st.emitted
           /\ emit_log' = st.log
           /\ tree_stacks' = Equalize(st.stacks, root_func)
           /\ estacks' = Merge(estacks, tree_stacks')
    /\ ei' = skip_to_next_tree_or_main_entry(ei)
    /\ pc' = "entry"
    /\ UNCHANGED <<args, validate_vars, header_vars, main_vars, command, children_pct, ti, root_func,
                   pipe_base_depth, overflow, parents, pushed_rows>>

all_parse_vars == <<args, header_vars, main_vars, entry_vars, tree_vars>>

\* lines 964-966: an empty stack map ends the process
MainNoStacks ==
    /\ pc = "done"
    /\ ret = "main"
    /\ DOMAIN final_stacks = {}
    /\ pc' = "exit_no_stacks"
    /\ exit_status' = EmptyExitStatus
    /\ UNCHANGED <<args, event_count, total_samples, main_vars, entry_vars, tree_vars,
                   validate_vars>>

\* lines 970-971: the folded file is written and handed to validate_folded_file
MainWriteFolded ==
    /\ pc = "done"
    /\ ret = "main"
    /\ DOMAIN final_stacks # {}
    /\ file' = write_folded(final_stacks)
    /\ pc' = "validate"
    /\ UNCHANGED <<all_parse_vars, ret, line_num, line_count, valid_lines, is_valid>>

\* lines 488-494: an empty file is refused, otherwise the loop starts
ValidateOpen ==
    /\ pc = "validate"
    /\ IF file = <<>>
       THEN pc' = "validated" /\ is_valid' = FALSE
       ELSE pc' = "vloop" /\ is_valid' = is_valid
    /\ line_num' = 1
    /\ line_count' = 0
    /\ valid_lines' = 0
    /\ UNCHANGED <<all_parse_vars, file, ret>>

\* lines 496-510: one iteration of the loop over the lines of the file
ValidateLine ==
    /\ pc = "vloop"
    /\ line_num <= Len(file)
    /\ line_count' = line_count + 1
    /\ IF file[line_num].k = "blank"
       THEN /\ line_num' = line_num + 1
            /\ UNCHANGED <<valid_lines, pc>>
       ELSE /\ valid_lines' = IF LineValid(file[line_num]) THEN valid_lines + 1
                              ELSE valid_lines
            /\ IF line_num >= ValidateLimit
               THEN pc' = "vbreak" /\ line_num' = line_num
               ELSE pc' = pc /\ line_num' = line_num + 1
    /\ UNCHANGED <<all_parse_vars, file, ret, is_valid>>

\* lines 511-516: the verdict, at the end of the file or after the break
ValidateReturn ==
    /\ \/ pc = "vbreak"
       \/ pc = "vloop" /\ line_num > Len(file)
    /\ is_valid' = Verdict(valid_lines, line_count)
    /\ pc' = "validated"
    /\ UNCHANGED <<all_parse_vars, file, ret, line_num, line_count, valid_lines>>

\* lines 972-973: a file that fails validation ends the process
MainValidated ==
    /\ pc = "validated"
    /\ ret = "main"
    /\ IF ~is_valid
       THEN pc' = "exit_invalid" /\ exit_status' = InvalidExitStatus
       ELSE pc' = "validated_ok" /\ exit_status' = exit_status
    /\ UNCHANGED <<args, event_count, total_samples, main_vars, entry_vars, tree_vars,
                   validate_vars>>

Next ==
    \/ HeaderScan
    \/ MainSkip
    \/ MainSkipNote
    \/ MainTopFiltered
    \/ MainTopTree
    \/ MainTopBrief
    \/ MainFinish
    \/ EntrySkip
    \/ EntryRoot
    \/ EntryReturn
    \/ TreeSkip
    \/ TreeImplicit
    \/ TreeDash
    \/ TreeBranch
    \/ TreeReturn
    \/ MainNoStacks
    \/ MainWriteFolded
    \/ ValidateOpen
    \/ ValidateLine
    \/ ValidateReturn
    \/ MainValidated

Spec == Init /\ [][Next]_vars

-----------------------------------------------------------------------------
(* Properties. *)

Last(sq) == sq[Len(sq)]

LogIdx == 1..Len(emit_log)

\* what the report says about the rows of a leaf's path
RECURSIVE RowsFrac(_)
RowsFrac(rows) ==
    IF rows = <<>> THEN QInt(1)
    ELSE IF Len(rows) = 1
    THEN IF lines[rows[1]].k = "branch" THEN Q(lines[rows[1]].num, 100) ELSE QInt(1)
    ELSE LET h == Len(rows) \div 2
         IN  QMul(RowsFrac(SubSeq(rows, 1, h)), RowsFrac(SubSeq(rows, h + 1, Len(rows))))

RowNames(rows) == [j \in 1..Len(rows) |-> LineText(lines[rows[j]])]

ReportedCount(e) ==
    QMul(QMul(EventTotal(event_count, total_samples), Q(lines[e.top].num, 100)),
         RowsFrac(e.rows))

ReportedPath(e) ==
    (IF lines[e.top].thr[1] = UnknownCommand THEN <<>> ELSE <<lines[e.top].thr[1]>>)
        \o <<lines[e.root].name>> \o RowNames(e.rows)

ExampleReport ==
    <<EvLine(1000), SmLine(10), Top(50, ThrP, "root"), Root("root"),
      Branch(1, 60, "f"), Branch(1, 40, "g")>>

\* C1: every leaf emitted by the full-tree parser has count event_total x
\* Children%/100 x the product of pct/100 over the branch rows of its path (rows
\* without a percentage count as 1) and path [command] + [root] + the rows' names,
\* the command left out when it is Unknown; the report of the end-to-end scenario
\* yields exactly proc;root;f = 300 and proc;root;g = 200.
C1_LeafCountAndPath ==
    /\ \A n \in LogIdx :
          /\ emit_log[n].count = ReportedCount(emit_log[n])
          /\ emit_log[n].key = Join(ReportedPath(emit_log[n]))
    /\ (pc = "done" /\ lines = ExampleReport) =>
          /\ stacks = (<<"proc", "root", "f">> :> <<300, 1>>
                       @@ <<"proc", "root", "g">> :> <<200, 1>>)
          /\ final_stacks = (<<"proc", "root", "f">> :> 300
                             @@ <<"proc", "root", "g">> :> 200)

C1_Witness ==
    /\ pc = "done"
    /\ \E n \in LogIdx :
          /\ Len(emit_log[n].rows) >= 2
          /\ \E j \in 1..Len(emit_log[n].rows) : lines[emit_log[n].rows[j]].k # "branch"
          /\ \E j \in 1..Len(emit_log[n].rows) : lines[emit_log[n].rows[j]].k = "branch"
          /\ QPos(emit_log[n].count)

LogSum(key) ==
    LET ns == {n \in LogIdx : emit_log[n].key = key}
        cnt == [n \in ns |-> emit_log[n].count]
    IN  SumValues(cnt)

StackKey(key) == IF reverse THEN Reversed(key) ELSE key

\* C2: counts for identical paths accumulate by summation: at the end of the parse
\* the raw stack map holds, for every path some leaf emission produced, the sum of
\* the counts of all the emissions of that path (no equalization).
C2_Accumulate ==
    (pc = "done" /\ ~equalize_root_sum) =>
        \A n \in LogIdx :
            QPos(LogSum(emit_log[n].key)) =>
                /\ StackKey(emit_log[n].key) \in DOMAIN stacks
                /\ stacks[StackKey(emit_log[n].key)] = LogSum(emit_log[n].key)

\* C3: a frame under which a deeper frame was pushed is never emitted as the last
\* frame of a stack, and every key of the tree's stack map comes from the emission
\* of a frame that never had a frame pushed under it.
C3_LeafOnly ==
    /\ \A n \in LogIdx : Last(emit_log[n].rows) \notin parents
    /\ \A k \in DOMAIN tstacks :
          \E n \in LogIdx :
              /\ emit_log[n].key = k
              /\ Last(emit_log[n].rows) \notin parents

C3_Witness ==
    /\ pc = "done"
    /\ parents # {}
    /\ Len(emit_log) >= 2
    /\ \E n \in LogIdx : Len(emit_log[n].rows) >= 2

\* C4: every entry of the final stack map has a strictly positive integer count.
C4_PositiveFinal == \A k \in DOMAIN final_stacks : final_stacks[k] > 0

NoParseable(kind) ==
    \A j \in 1..Len(lines) :
        (j <= HeaderLines /\ lines[j].k = kind) => lines[j].num = NoneV

C6_NoDuplicateFrames ==
    \A a, b \in 1..Len(frames) : a # b => frames[a].name # frames[b].name

-----------------------------------------------------------------------------
(* Brief mode, read off the report: the maximal runs of top-level rows of  *)
(* one thread.                                                             *)

TopIdx == {j \in 1..Len(lines) : lines[j].k = "top"}

\* the first row of each run
RunStarts ==
    {j \in TopIdx :
        \A p \in TopIdx :
            (p < j /\ \A q \in TopIdx : ~(p < q /\ q < j)) => lines[p].thr # lines[j].thr}

\* where the run that starts at s ends: the next run's first row, or the end
RunEnd(s) ==
    LET later == {j \in RunStarts : j > s}
    IN  IF later = {} THEN Len(lines) + 1
        ELSE CHOOSE j \in later : \A x \in later : j <= x

RECURSIVE SymbolsFrom(_, _)
SymbolsFrom(j, end) ==
    IF j >= end THEN <<>>
    ELSE IF lines[j].k = "top" THEN <<lines[j].name>> \o SymbolsFrom(j + 1, end)
    ELSE SymbolsFrom(j + 1, end)

RunSymbols(s) == SymbolsFrom(s, RunEnd(s))

RECURSIVE Collapse(_)
Collapse(sq) ==
    IF Len(sq) < 2 THEN sq
    ELSE IF sq[1] = sq[2] THEN Collapse(Tail(sq))
    ELSE <<sq[1]>> \o Collapse(Tail(sq))

RunSkipped(s) == \E j \in (s + 1)..(RunEnd(s) - 1) : lines[j].k = "skipnote"

RunCount(s) == QMul(EventTotal(event_count, total_samples), Q(lines[s].num, 100))

RunPath(s, symbols) ==
    LET elems == <<lines[s].thr[1]>> \o symbols
    IN  Join(IF reverse THEN Reversed(elems) ELSE elems)

CollapsedSymbols(s) == Collapse(RunSymbols(s))

\* the stack map the runs add up to, their symbols collapsed or not
RECURSIVE RunsMap(_, _)
RunsMap(starts, collapsed) ==
    IF starts = {} THEN EmptyMap
    ELSE LET s == CHOOSE x \in starts : TRUE
         IN  AddTo(RunsMap(starts \ {s}, collapsed),
                   RunPath(s, IF collapsed THEN CollapsedSymbols(s) ELSE RunSymbols(s)),
                   RunCount(s))

Emitting == {s \in RunStarts : ~RunSkipped(s) /\ QPos(RunCount(s))}

BriefDone == pc = "done" /\ ~HasTree /\ ~dedug_first_start

C8_SkippedBlockSilent ==
    [][ /\ (pc = "main" /\ ~HasTree /\ current.open /\ current.skip) =>
              /\ stacks' = stacks
              /\ contributed' = contributed
              /\ (cur_start' = cur_start => current'.skip)
        /\ (pc = "main" /\ ~HasTree /\ current.open /\ i <= Len(lines)
               /\ lines[IF i <= Len(lines) THEN i ELSE 1].k = "skipnote") =>
              current'.skip ]_vars

C8_Witness ==
    /\ pc = "done"
    /\ ~HasTree
    /\ ~dedug_first_start
    /\ \E s \in RunStarts :
          /\ RunSkipped(s)
          /\ QPos(RunCount(s))
          /\ lines[s + 1].k = "skipnote"
          /\ Len(CollapsedSymbols(s)) >= 2
          /\ cur_start = s
          /\ current.symbols = CollapsedSymbols(s)
    /\ stacks = EmptyMap

\* the blocks of the report: top-level rows in tree mode, runs in brief mode
BlockStarts == IF HasTree THEN TopIdx ELSE RunStarts

EntryBlock(b) == IsEntry(lines[b].name)

SkippedBlock(b) == ~HasTree /\ RunSkipped(b)

Declared == QMul(EventTotal(event_count, total_samples), Q(children_pct, 100))

\* C10: after a root's tree is closed, if equalization is on, the root is the
\* thread-entry symbol and both its declared share and its raw leaf sum are
\* positive, every leaf count is the raw count times declared/raw_sum, so that the
\* leaves sum to the declared share; otherwise the leaf counts are the raw counts.
C10_Equalized ==
    pc # "tree" =>
        /\ DOMAIN tree_stacks = DOMAIN tstacks
        /\ IF equalize_root_sum /\ IsEntry(root_func) /\ QPos(SumValues(tstacks))
                /\ QPos(Declared)
           THEN /\ SumValues(tree_stacks) = Declared
                /\ \A k \in DOMAIN tstacks :
                      QMul(tree_stacks[k], SumValues(tstacks)) = QMul(tstacks[k], Declared)
                /\ (Declared = <<500, 1>> /\ SumValues(tstacks) = <<250, 1>>) =>
                      \A k \in DOMAIN tstacks : tree_stacks[k] = QMul(QInt(2), tstacks[k])
           ELSE tree_stacks = tstacks

C10_Witness ==
    /\ pc = "done"
    /\ equalize_root_sum
    /\ IsEntry(root_func)
    /\ Cardinality(DOMAIN tstacks) >= 2
    /\ QPos(SumValues(tstacks))
    /\ SumValues(tstacks) # Declared
    /\ SumValues(tree_stacks) = Declared

\* the example of C10: declared share 500, raw leaf sum 250
C10_Example ==
    /\ pc = "done"
    /\ equalize_root_sum
    /\ IsEntry(root_func)
    /\ Declared = <<500, 1>>
    /\ SumValues(tstacks) = <<250, 1>>
    /\ \A k \in DOMAIN tstacks : tree_stacks[k] = QMul(QInt(2), tstacks[k])

-----------------------------------------------------------------------------
(* Relations between two runs of the parser.  forward_stacks is the stack  *)
(* map of the run of the same report with reverse=False: the option is     *)
(* read at lines 139 and 195 only, so the two runs take the same steps.    *)

\* C11: at the end of the parse the stack map of a run with reverse=True is the
\* stack map of the run with reverse=False with the frame order of every key
\* reversed and the same counts, and reversing its keys again gives back the map
\* of the run with reverse=False exactly.
C11_ReversalSymmetry ==
    (pc = "done" /\ reverse) =>
        /\ stacks = ReverseKeys(forward_stacks)
        /\ ReverseKeys(stacks) = forward_stacks
        /\ Finalize(ReverseKeys(stacks)) = Finalize(forward_stacks)

\* the first top-level row, and the row where the second half of the rows starts
FirstTop == IF TopIdx = {} THEN 0 ELSE CHOOSE j \in TopIdx : \A x \in TopIdx : j <= x

Mid == FirstTop + (Len(lines) - FirstTop + 1) \div 2

\* the report gives its sequence of top-level blocks twice
Doubled ==
    /\ FirstTop > 0
    /\ Len(lines) - FirstTop + 1 = 2 * (Mid - FirstTop)
    /\ SubSeq(lines, FirstTop, Mid - 1) = SubSeq(lines, Mid, Len(lines))

\* the stack map after one pass over the blocks: the main loop is at the first row
\* of the second copy, where the run on the blocks given once is at the end
Once == stacks_at[Mid]

Twice(m) == [k \in DOMAIN m |-> QMul(QInt(2), m[k])]

DoubledDone == pc = "done" /\ Doubled /\ HasTree /\ ~dedug_first_start

\* C12 as claimed: for a report whose top-level blocks are given twice (filtering
\* off) the stack map returned holds, for every path, exactly double the count
\* of the stack map returned for the blocks given once.
C12_DoubledFinal ==
    DoubledDone =>
        /\ Mid \in DOMAIN stacks_at
        /\ final_stacks = [k \in DOMAIN Finalize(Once) |-> 2 * Finalize(Once)[k]]

\* C12 as amended: the accumulated, unrounded count of every path is exactly double
\* the count after one pass, over the same paths; the returned counts are the
\* roundings of the doubled counts.
C12_DoubledRaw ==
    DoubledDone =>
        /\ Mid \in DOMAIN stacks_at
        /\ stacks = Twice(Once)
        /\ final_stacks = Finalize(Twice(Once))

C12_Witness ==
    /\ DoubledDone
    /\ Cardinality(DOMAIN Once) >= 2
    /\ \E k \in DOMAIN Once :
          /\ QPos(Once[k])
          /\ stacks[k] = QMul(QInt(2), Once[k])
          /\ final_stacks[k] # 2 * Finalize(Once)[k]

-----------------------------------------------------------------------------
(* The closing of a tree.  pushed_rows holds <<root, row>> for every row of  *)
(* the root's tree that pushed a frame; emit_log holds every emit_leaf call.*)

Range(sq) == {sq[j] : j \in 1..Len(sq)}

TreeCloses == pc = "tree" /\ pc' = "entry"

\* the emissions of the tree of the root at line r, after the step
EmissionsOf(r) == {n \in 1..Len(emit_log') : emit_log'[n].root = r}

RowsOf(r) == {q[2] : q \in {x \in pushed_rows : x[1] = r}}

\* C16: when a root's tree is closed the root is on at least one emitted stack,
\* every frame that was pushed is on at least one emitted stack of the tree, and
\* every frame under which no frame was pushed is the last frame of one; a root
\* without child rows is emitted itself, as the stack that ends in the root.
C16_NoNodeLost ==
    [][ TreeCloses =>
            /\ EmissionsOf(ei) # {}
            /\ \A r \in RowsOf(ei) :
                  \E n \in EmissionsOf(ei) : r \in Range(emit_log'[n].rows)
            /\ \A r \in RowsOf(ei) \ parents :
                  \E n \in EmissionsOf(ei) : Last(emit_log'[n].rows) = r
            /\ RowsOf(ei) = {} =>
                  \E n \in EmissionsOf(ei) : emit_log'[n].rows = <<>> ]_vars

\* a step that processes the branch row at line ti
BranchStep ==
    /\ pc = "tree"
    /\ ~overflow
    /\ ti <= Len(lines)
    /\ lines[IF ti <= Len(lines) THEN ti ELSE 1].k = "branch"
    /\ pc' = "tree"
    /\ (ti' # ti \/ overflow')

\* the row pushed a frame: the recursion guard did not suppress it
RowPushed == <<ei, ti>> \in pushed_rows'

\* the depth of the row: pipe-base depth plus leading pipes minus one
RowDepth ==
    (IF pipe_base_depth = NoneV THEN Len(frames) ELSE pipe_base_depth) + lines[ti].pipes - 1

\* the positions of the open frames at depth >= d without a recorded child
PoppedLeaves(d) == {j \in (d + 1)..Len(frames) : ~frames[j].child}

NewLog == SubSeq(emit_log', Len(emit_log) + 1, Len(emit_log'))

\* what the claim says of the pops: the frames at depth >= d are gone, those
\* without a recorded child were emitted, deepest first, the others were not
PopsAsClaimed(d) ==
    LET kept == Min(d, Len(frames))
        pops == IF overflow' THEN SubSeq(NewLog, 1, Len(NewLog) - 1) ELSE NewLog
    IN  /\ FrameLines(SubSeq(frames', 1, Len(frames') - 1))
              = FrameLines(SubSeq(frames, 1, kept))
        /\ Len(pops) = Cardinality(PoppedLeaves(d))
        /\ \A j \in PoppedLeaves(d) :
              \E n \in 1..Len(pops) : pops[n].rows = FrameLines(SubSeq(frames, 1, j))
        /\ \A n, q \in 1..Len(pops) : n < q => Len(pops[n].rows) > Len(pops[q].rows)
        /\ Last(frames').line = ti
        /\ Last(frames').name = lines[ti].name

\* C18 as claimed: a branch row at depth d that the recursion guard does not
\* suppress pops every open frame at depth >= d, deepest first, emitting those
\* without a recorded child and not the others, and leaves the new frame on top
\* of the open-frame stack with exactly d open frames below it.
C18_PushAtDepth ==
    [][ (BranchStep /\ RowPushed) =>
            /\ PopsAsClaimed(RowDepth)
            /\ Len(frames') = RowDepth + 1 ]_vars

\* C18 as amended: the new frame has d open frames below it when at least d
\* frames were open, and all the frames that were open when fewer were.
C18_PushAtDepthOrTop ==
    [][ (BranchStep /\ RowPushed) =>
            /\ PopsAsClaimed(RowDepth)
            /\ Len(frames') = Min(RowDepth, Len(frames)) + 1 ]_vars

\* a branch row has just popped a leaf (emitted) and its parent (not emitted)
C18_Witness ==
    /\ pc = "tree"
    /\ frames # <<>>
    /\ Last(frames).line = ti - 1
    /\ lines[ti - 1].k = "branch"
    /\ emit_log # <<>>
    /\ Last(emit_log).root = ei
    /\ Len(Last(emit_log).rows) >= Len(frames) + 1
    /\ SubSeq(Last(emit_log).rows, 1, Len(frames) - 1)
          = SubSeq(FrameLines(frames), 1, Len(frames) - 1)
    /\ Last(emit_log).rows[Len(frames)] \in parents
    /\ Last(emit_log).rows[Len(frames)] # ti - 1

\* C17: in every state of the full-tree parser the number of open frames is at
\* most the depth limit plus one, whatever rows (branch, indented "-- ", implicit)
\* pushed them, and once a push has gone over the limit the path is emitted once
\* and the rows of the root that follow are not processed.
C17_DepthCapped ==
    /\ Len(frames) <= DepthLimit + 1
    /\ (pc = "tree" /\ overflow) =>
          /\ Len(frames) = DepthLimit + 1
          /\ ti = Last(frames).line
          /\ Cardinality({n \in LogIdx : /\ emit_log[n].rows = FrameLines(frames)
                                         /\ emit_log[n].stored}) = 1

\* the first line that is neither a header field nor blank
FirstContent ==
    LET js == {j \in 1..Len(lines) : lines[j].k \notin {"evcount", "samples", "blank"}}
    IN  IF js = {} THEN Len(lines) + 1 ELSE CHOOSE j \in js : \A x \in js : j <= x

\* the value the header gives: the last parseable field before the first content
HeaderBefore(kind) ==
    LET js == {j \in 1..(FirstContent - 1) : lines[j].k = kind /\ lines[j].num # NoneV}
    IN  IF js = {} THEN NoneV ELSE lines[SetMax(js)].num

\* C14: the header is not read again after the first non-header content: once the
\* header scan is over, event_count and total_samples are the values given before
\* the first non-header line, so that an 'Event count:' or 'Samples:' line after
\* it changes neither them nor the counts computed from them.
C14_HeaderNotReentered ==
    pc # "header" =>
        /\ event_count = HeaderBefore("evcount")
        /\ total_samples = HeaderBefore("samples")

-----------------------------------------------------------------------------
(* The folded file and the exits of main. *)

\* the lines of the file the claim speaks of: the first 1000, or all of them
FirstLines == 1..Min(Len(file), ValidateLimit)

ValidAmongFirst == Cardinality({j \in FirstLines : LineValid(file[j])})

\* C13: validate_folded_file refuses a file in which fewer than half of the first
\* 1000 lines end in a positive count, and accepts every file in which at least
\* half of those lines are valid and at least one is.
C13_HalfOfFirstLines ==
    pc = "validated" =>
        is_valid = (ValidAmongFirst >= 1 /\ 2 * ValidAmongFirst >= Cardinality(FirstLines))

\* where the process is after each of the fatal exits
FatalPcs == {"exit", "exit_no_stacks", "exit_invalid"}

\* C15: every fatal condition (a required header field missing, the stack map
\* empty after the parse, the folded file refused by the validation) ends the run
\* with an exit status that is not zero and that no other fatal condition uses.
C15_DistinctExitStatus ==
    /\ pc \in FatalPcs => exit_status # 0
    /\ pc = "exit" => exit_status \notin {EmptyExitStatus, InvalidExitStatus}
    /\ pc = "exit_no_stacks" => exit_status \notin {HeaderExitStatus, InvalidExitStatus}
    /\ pc = "exit_invalid" => exit_status \notin {HeaderExitStatus, EmptyExitStatus}

-----------------------------------------------------------------------------
(* Malformed top-level rows. *)

AtMalformed(j) == j <= Len(lines) /\ lines[j].k = "badtop"

\* the row after row j is a row of a tree: a root, or a frame row
RootFollows(j) == j < Len(lines) /\ lines[j + 1].k = "root"

FrameFollows(j) == j < Len(lines) /\ lines[j + 1].k \in {"branch", "dash", "implicit"}

\* the main loop reads a malformed row: nothing but the index moves
MainStepsOver ==
    (pc = "main" /\ AtMalformed(i)) =>
        /\ pc' = "main" /\ i' = i + 1
        /\ stacks' = stacks
        /\ emitted_threads' = emitted_threads
        /\ current' = current

\* C19: a malformed top-level row is stepped over without effect.  Where the
\* main loop reads it, the stack map, the emitted threads and the open brief
\* block stay as they are; where the loop over the roots of a top-level row or
\* the loop over the rows of a tree reads it and the next row is a root or a
\* frame row, the loop goes on to that row with its state unchanged, as it
\* would were the malformed row absent.
C19_MalformedRowSkipped ==
    [][/\ MainStepsOver
       /\ (pc = "entry" /\ AtMalformed(ei) /\ RootFollows(ei)) =>
            /\ pc' = "entry" /\ ei' = ei + 1
            /\ estacks' = estacks
       /\ (pc = "tree" /\ ~overflow /\ AtMalformed(ti) /\ FrameFollows(ti)) =>
            /\ pc' = "tree" /\ ti' = ti + 1
            /\ frames' = frames
            /\ tstacks' = tstacks]_vars

-----------------------------------------------------------------------------
(* The order of the checks in flush_current_block. *)

\* the step flushes the open brief block: a row of another thread, or the end
FlushStep ==
    /\ pc = "main"
    /\ ~HasTree
    /\ current.open
    /\ current.symbols # <<>>
    /\ IF i <= Len(lines)
       THEN lines[i].k = "top" /\ lines[i].thr # current.thread_key
       ELSE TRUE

\* every earlier block of the open block's thread carries a 'skipped' row
EarlierAllSkipped ==
    \A c \in RunStarts :
        (c < cur_start /\ lines[c].thr = current.thread_key) => RunSkipped(c)

\* C20: when a brief block is flushed the skip mark is looked at before the
\* thread-head filter.  A block marked skipped adds nothing to the stack map and
\* does not enter its thread into the emitted threads; so, with filtering on, a
\* later block of that thread which starts with the thread-entry symbol, is not
\* marked and has a positive count is emitted (and its thread entered), when
\* every earlier block of the thread was marked skipped.
C20_SkipBeforeFilter ==
    [][FlushStep =>
          /\ current.skip =>
                /\ stacks' = stacks
                /\ emitted_threads' = emitted_threads
          /\ (/\ dedug_first_start
              /\ ~current.skip
              /\ IsEntry(current.symbols[1])
              /\ QPos(BlockCount(current))
              /\ EarlierAllSkipped) =>
                /\ stacks' = AddTo(stacks, BlockKey(current), BlockCount(current))
                /\ cur_start \in contributed'
                /\ emitted_threads' = emitted_threads \cup {current.thread_key}]_vars

\* a skipped entry block of a thread, and a later entry block of it emitted
C20_Witness ==
    /\ pc = "done"
    /\ ~HasTree
    /\ dedug_first_start
    /\ \E b \in contributed :
          /\ BlockKey(current) \in DOMAIN stacks
          /\ cur_start = b
          /\ lines[b].thr \in emitted_threads
          /\ \E c \in RunStarts :
                /\ c < b
                /\ lines[c].thr = lines[b].thr
                /\ EntryBlock(c)
                /\ RunSkipped(c)
                /\ QPos(RunCount(c))

-----------------------------------------------------------------------------
(* A header that declares no samples. *)

\* the header scan is over: an event count was read, and no samples
NoSamples ==
    /\ ret = "main"
    /\ pc # "header"
    /\ event_count # NoneV
    /\ total_samples = 0

ParsePcs == {"main", "entry", "tree", "done"}

AllZero(m) == \A k \in DOMAIN m : m[k] = QZero

\* C21: when the header declares Samples: 0 the event total is 0 whatever the
\* event count, every count computed for a leaf or a block is 0, nothing is
\* added to the stack map in tree or brief mode, and the run goes from the end
\* of the parse to the exit taken on an empty stack map and nowhere else.
C21_NoSamplesNoStacks ==
    NoSamples =>
        /\ EventTotal(event_count, total_samples) = QZero
        /\ \A n \in LogIdx : emit_log[n].count = QZero
        /\ AllZero(tstacks) /\ AllZero(tree_stacks) /\ AllZero(estacks)
        /\ (current.open => BlockCount(current) = QZero)
        /\ stacks = EmptyMap
        /\ DOMAIN final_stacks = {}
        /\ contributed = {}
        /\ pc \in ParsePcs \cup {"exit_no_stacks"}
        /\ (pc = "done" => ENABLED MainNoStacks)
        /\ (pc = "exit_no_stacks" => exit_status = EmptyExitStatus)

\* a tree report with a positive event count, leaves computed, and the exit
C21_Witness ==
    /\ NoSamples
    /\ pc = "exit_no_stacks"
    /\ event_count > 1
    /\ equalize_root_sum
    /\ Len(emit_log) >= 2
    /\ \E n \in LogIdx : emit_log[n].key \in DOMAIN estacks

\* the same for a brief report: a block of positive share was flushed
C21_BriefCase ==
    /\ NoSamples
    /\ pc = "exit_no_stacks"
    /\ ~HasTree
    /\ event_count > 1
    /\ current.open /\ current.block_pct > 0

-----------------------------------------------------------------------------
(* The parse as a forward pass. *)

LoopPcs == {"main", "entry", "tree"}

EndOfLines == Len(lines) + 1

\* what one step does to the three line indices.  An iteration of the main
\* loop that parses a tree runs from the call of parse_entry_callstack, which
\* moves i past the row, to its return; an iteration of the loop over the roots
\* that parses a tree runs from the call of parse_callstack_tree_new to its
\* return; the iteration of the tree loop that hits the depth limit breaks out
\* of the loop and is its last.
IndexSteps ==
    /\ (pc = "main" /\ pc' \in {"main", "entry"}) => i' > i
    /\ (pc = "main" /\ pc' = "entry") => ei' = i'
    /\ (pc = "entry" /\ pc' = "main") => (i' > i - 1 /\ i' >= ei)
    /\ (pc \in {"entry", "tree"} /\ pc' \in {"entry", "tree"}) => i' = i
    /\ (pc = "entry" /\ pc' = "entry") => ei' > ei
    /\ (pc = "entry" /\ pc' = "tree") => (ei' = ei /\ ti' = ei + 1)
    /\ (pc = "tree" /\ pc' = "entry") => ei' > ei
    /\ (pc = "tree" /\ pc' = "tree") =>
          (ei' = ei /\ IF overflow' THEN ti' = ti ELSE ti' > ti)
    /\ (pc = "tree" /\ overflow) => pc' = "entry"

\* the indices stay within the lines, or one past them
IndexBounds ==
    (ret = "main" /\ pc \in LoopPcs \cup {"done"}) =>
        /\ i \in 1..EndOfLines
        /\ (pc \in {"entry", "tree"} => ei \in i..EndOfLines)
        /\ (pc = "tree" => ti \in (ei + 1)..EndOfLines)
        /\ (pc = "done" => i = EndOfLines)

\* the fatal exit of the header scan
HeaderExit ==
    /\ pc = "exit"
    /\ HeaderMissing(event_count, total_samples)
    /\ DOMAIN final_stacks = {}

\* the parse has returned its result
ParseDone == pc = "done" /\ final_stacks = Finalize(stacks)

InParse == ret = "main" /\ pc \in LoopPcs \cup {"header", "done", "exit"}

\* a variant of the parse: a natural number that every step of the parse makes
\* smaller.  It orders the states by the main index, then by the loop the
\* parse is in (the loop over the roots and the tree loop run inside an
\* iteration of the main loop), then by the root index, then by the tree index.
TreeRank == 2 * (EndOfLines - ti) + (IF overflow THEN 0 ELSE 1) + 1

TreeWeight == 2 * EndOfLines + 3

RootWeight == TreeWeight + 1

MainWeight == (EndOfLines + 1) * RootWeight + TreeWeight + 2

Variant ==
    IF pc = "header" THEN (EndOfLines + 1) * MainWeight
    ELSE IF pc = "main" THEN (EndOfLines - i) * MainWeight + 1
    ELSE IF pc = "entry"
    THEN (EndOfLines - i) * MainWeight + (EndOfLines - ei) * RootWeight + TreeWeight + 1
    ELSE IF pc = "tree"
    THEN (EndOfLines - i) * MainWeight + (EndOfLines - ei) * RootWeight + TreeRank + 1
    ELSE 0

ParseStep == ret = "main" /\ pc \in LoopPcs \cup {"header"}

Forward ==
    /\ [][IndexSteps /\ (ParseStep => Variant' < Variant)]_vars
    /\ [](IndexBounds /\ (InParse => Variant \in Nat))

\* C22 as claimed: the parse is a forward pass that ends in its done state on
\* every list of lines: every iteration of the main loop, of the loop over the
\* roots and of the tree loop moves its line index strictly forward, the indices
\* never pass the end of the lines, every step brings the end nearer, and the
\* parse stops nowhere but in its done state, where the result is returned.
C22_ForwardToDone ==
    /\ Forward
    /\ [](InParse => (pc \in LoopPcs \cup {"header"} \/ ParseDone))

\* C22 as amended: the same, but a list of lines whose first 40 lines hold no
\* parseable event count or no parseable sample count stops the parse in the
\* fatal exit, with no result.
C22_ForwardToDoneOrExit ==
    /\ Forward
    /\ [](InParse => (pc \in LoopPcs \cup {"header"} \/ ParseDone \/ HeaderExit))

\* a parse that ends after a filtered-out block and a parsed tree
C22_Witness ==
    /\ ret = "main"
    /\ ParseDone
    /\ HasTree
    /\ dedug_first_start
    /\ i = EndOfLines
    /\ emit_log # <<>>
    /\ \E j \in TopIdx : TopFiltered(lines[j])
    /\ DOMAIN final_stacks # {}

====
